---------------------------- MODULE Spec2Model ----------------------------
(***************************************************************************)
(* Model of src/simulation.py: a Streamlit script that repeatedly samples  *)
(* a finite population and records two variance estimates per sample.      *)
(*                                                                         *)
(* Floats are modelled exactly, as fractions <<num, den>> in lowest terms  *)
(* with den > 0; <<0, 0>> is NaN and <<1, 0>> / <<-1, 0>> are +inf / -inf, *)
(* the values numpy's division gives for a zero divisor.  All samples are  *)
(* integer valued, as the population of the script is.                     *)
(***************************************************************************)
EXTENDS Integers, Sequences, FiniteSets, TLC

VARIABLES
    running,    \* st.session_state.running
    var_n,      \* st.session_state.var_n   (history of divide-by-n estimates)
    var_n1,     \* st.session_state.var_n1  (history of divide-by-(n-1) estimates)
    pc,         \* position of the script run in simulation.py
    clicked,    \* the button whose st.button(...) call will return True in this run
    request,    \* rerun request sent by the browser and not yet taken up
    n,          \* local n of the loop body (0: not drawn)
    sample,     \* local sample of the loop body
    prev,       \* session state as it was when the Clear / Reset run in progress began
    grown,      \* entries appended since the last pause/reset request
    presses,    \* number of button presses so far
    est,        \* estimator harness: one sample and the two results
    mc,         \* exhaustive tally over all samples of one size
    globals,    \* the script's globals population and true_variance
    iters       \* iterations that made both appends since the histories were empty

vars == <<running, var_n, var_n1, pc, clicked, request, n, sample, prev, grown, presses, est, mc,
          globals, iters>>

-----------------------------------------------------------------------------
(* Bounds of the model *)

MaxHist == 2      \* iterations explored per history
MaxPresses == 4   \* button presses explored per session
MaxSeed == 0      \* streams of the random generator explored per draw
MaxVal == 4       \* largest value of a sample given to the estimator harness
MaxLen == 3       \* longest sample given to the estimator harness
MaxK == 3         \* largest sample size tallied exhaustively
MaxStream == 11   \* streams of the random generator given to random.sample alone

-----------------------------------------------------------------------------
(* Exact float arithmetic *)

Abs(i) == IF i < 0 THEN 0 - i ELSE i

RECURSIVE GCD(_, _)
GCD(a, b) == IF b = 0 THEN a ELSE GCD(b, a % b)

Norm(num, den) ==
    LET g == GCD(Abs(num), den) IN <<num \div g, den \div g>>

NaN == <<0, 0>>

IsFinite(a) == a[2] > 0

FromInt(i) == <<i, 1>>

FAdd(a, b) == Norm(a[1] * b[2] + b[1] * a[2], a[2] * b[2])

FSub(a, b) == Norm(a[1] * b[2] - b[1] * a[2], a[2] * b[2])

FMul(a, b) == Norm(a[1] * b[1], a[2] * b[2])

FLt(a, b) == a[1] * b[2] < b[1] * a[2]

FLe(a, b) == a[1] * b[2] <= b[1] * a[2]

\* numpy's float64 division: a zero divisor gives nan (0/0) or inf (x/0) with
\* a RuntimeWarning; it does not raise.
np_true_divide(a, b) ==
    IF b[1] = 0
    THEN IF a[1] = 0 THEN NaN ELSE <<IF a[1] > 0 THEN 1 ELSE -1, 0>>
    ELSE IF b[1] > 0 THEN Norm(a[1] * b[2], a[2] * b[1])
         ELSE Norm(0 - a[1] * b[2], a[2] * (0 - b[1]))

RECURSIVE np_sum(_)
np_sum(a) == IF a = <<>> THEN FromInt(0) ELSE FAdd(a[1], np_sum(Tail(a)))

np_array(x) == [i \in DOMAIN x |-> FromInt(x[i])]

np_mean(a) == np_true_divide(np_sum(a), FromInt(Len(a)))

\* (np.array(x) - m) ** 2
SquaredDeviations(x, m) ==
    [i \in DOMAIN x |-> FMul(FSub(FromInt(x[i]), m), FSub(FromInt(x[i]), m))]

-----------------------------------------------------------------------------
(* Population setup, line 84 *)

population == [i \in 1..20 |-> i]

-----------------------------------------------------------------------------
(* Variance functions, lines 105-111 *)

\* variance_n gone wrong: the deviations taken from the population mean
variance_n_about_population(x) ==
    LET m == np_mean(np_array(population))
    IN  np_mean(SquaredDeviations(x, m))

variance_n(x) ==
    LET m == np_mean(np_array(x))
    IN  np_mean(SquaredDeviations(x, m))

\* variance_n1 gone wrong: Bessel's correction left out
variance_n1_div_n(x) ==
    LET m == np_mean(np_array(x))
    IN  np_true_divide(np_sum(SquaredDeviations(x, m)), FromInt(Len(x)))

variance_n1(x) ==
    LET m == np_mean(np_array(x))
    IN  np_true_divide(np_sum(SquaredDeviations(x, m)), FromInt(Len(x) - 1))

-----------------------------------------------------------------------------
(* line 85 *)

\* np.var gone wrong: the divisor N - 1
np_var_ddof1(x) ==
    LET m == np_mean(np_array(x))
    IN  np_true_divide(np_sum(SquaredDeviations(x, m)), FromInt(Len(x) - 1))

\* np.var(population): the mean squared deviation from the population mean
np_var(x) ==
    LET m == np_mean(np_array(x))
    IN  np_mean(SquaredDeviations(x, m))

true_variance == np_var(population)


-----------------------------------------------------------------------------
(* random.randint(2, 10) and random.sample(population, n), lines 178-179 *)

\* randint gone wrong: sizes from 1
randint_1_10 == 1..10

\* outcomes of random.randint(2, 10)
randint_2_10 == 2..10

\* The generator's i-th draw below m, on the stream chosen by seed.  The draws
\* of one call of random.sample are the inputs of the model; MaxSeed bounds the
\* streams explored.
randbelow(seed, i, m) == (seed * (i + 1)) % m

\* random.sample on a list no longer than 21: a partial shuffle of a copy.
\*   for i in range(k): j = randbelow(n - i); result[i] = pool[j];
\*                      pool[j] = pool[n - i - 1]
RECURSIVE PartialShuffle_NoMove(_, _, _, _, _)
\* the shuffle gone wrong: the vacancy is not refilled, so a value can be
\* drawn again
PartialShuffle_NoMove(pool, i, k, seed, result) ==
    IF i = k THEN result
    ELSE LET m == Len(pool) - i
             j == randbelow(seed, i, m) + 1
         IN  PartialShuffle_NoMove(pool, i + 1, k, seed, Append(result, pool[j]))

RECURSIVE PartialShuffle(_, _, _, _, _)
PartialShuffle(pool, i, k, seed, result) ==
    IF i = k THEN result
    ELSE LET m == Len(pool) - i
             j == randbelow(seed, i, m) + 1
         IN  PartialShuffle([pool EXCEPT ![j] = pool[m]], i + 1, k, seed,
                            Append(result, pool[j]))

random_sample(pop, k, seed) == PartialShuffle(pop, 0, k, seed, <<>>)

-----------------------------------------------------------------------------
(* The script run.  Streamlit runs simulation.py from the top for every button *)
(* press; st.session_state outlives the runs.  A press that arrives while a    *)
(* run is executing is taken up at the run's next call into Streamlit (an      *)
(* st.* call or an access of st.session_state): the call raises inside the     *)
(* old run, which unwinds, and the new run starts from the top.                *)

\* positions whose statement begins with a call into Streamlit
YieldPoints ==
    {"controls", "reset_var_n", "reset_var_n1", "reset_done", "loop",
     "get_var_n", "get_var_n1", "plot", "final_plot"}

\* positions where no run is executing: the script ended, normally or by an
\* uncaught exception
Stopped == {"done", "error"}

NoEst == [x |-> <<>>, biased |-> <<>>, unbiased |-> <<>>]

NoMc == [k |-> 0, comb |-> <<>>, count |-> 0, sum_n |-> <<0, 1>>,
         sum_n1 |-> <<0, 1>>, phase |-> "off"]

NoPrev == [running |-> FALSE, len_n |-> 0, len_n1 |-> 0]

NotTracking == [on |-> FALSE, n |-> 0, n1 |-> 0]

\* no iteration since the histories were empty; dirty while a Clear / Reset
\* handler has begun and not finished
NoIters == [count |-> 0, dirty |-> FALSE]

\* lines 97-100, and the first run down to the loop with no button pressed
SessionInit ==
    /\ running = FALSE
    /\ var_n = <<>>
    /\ var_n1 = <<>>
    /\ pc = "loop"
    /\ clicked = "none"
    /\ request = "none"
    /\ n = 0
    /\ sample = <<>>
    /\ prev = NoPrev
    /\ grown = NotTracking
    /\ presses = 0
    /\ globals = [population |-> population, true_variance |-> true_variance]
    /\ iters = NoIters

Init ==
    /\ SessionInit
    /\ est = NoEst
    /\ mc = NoMc

\* The user presses a button; the browser sends a rerun request.  A press on
\* Clear / Reset, or on Start / Pause while running, asks the loop to stop.
\* One press is in flight at a time: the next press comes after the run for
\* the previous one has started.
Click(b) ==
    /\ request = "none"
    /\ presses < MaxPresses
    /\ request' = b
    /\ grown' = IF (b = "reset" \/ running) /\ ~grown.on
                THEN [on |-> TRUE, n |-> 0, n1 |-> 0]
                ELSE grown
    /\ presses' = presses + 1
    /\ UNCHANGED <<running, var_n, var_n1, pc, clicked, n, sample, prev, est, mc, globals, iters>>

\* The pending request is taken up: at once when no run is executing, else at
\* the executing run's next yield point.  The new run starts from the top with
\* the pressed button set; the locals of the old run are gone.
Rerun ==
    /\ request # "none"
    /\ pc \in YieldPoints \cup Stopped
    /\ pc' = "controls"
    /\ clicked' = request
    /\ request' = "none"
    /\ n' = 0
    /\ sample' = <<>>
    /\ prev' = IF request = "reset"
               THEN [running |-> running, len_n |-> Len(var_n), len_n1 |-> Len(var_n1)]
               ELSE NoPrev
    /\ globals' = [population |-> population, true_variance |-> true_variance]  \* lines 84-85 run again
    /\ UNCHANGED <<running, var_n, var_n1, grown, presses, est, mc, iters>>

\* the handler gone wrong: the flag set instead of flipped
Toggle_SetsTrue ==
    /\ pc = "controls" /\ clicked = "toggle" /\ request = "none"
    /\ running' = TRUE
    /\ grown' = IF ~running THEN NotTracking ELSE grown
    /\ clicked' = "none"
    /\ pc' = "loop"
    /\ UNCHANGED <<var_n, var_n1, request, n, sample, prev, presses, est, mc, globals, iters>>

\* lines 120-122
Toggle ==
    /\ pc = "controls" /\ clicked = "toggle" /\ request = "none"
    /\ running' = ~running
    /\ grown' = IF ~running THEN NotTracking ELSE grown
    /\ clicked' = "none"
    /\ pc' = "loop"
    /\ UNCHANGED <<var_n, var_n1, request, n, sample, prev, presses, est, mc, globals, iters>>

\* lines 124-126
ResetRunning ==
    /\ pc = "controls" /\ clicked = "reset" /\ request = "none"
    /\ running' = FALSE
    /\ clicked' = "none"
    /\ pc' = "reset_var_n"
    /\ iters' = [iters EXCEPT !.dirty = TRUE]
    /\ UNCHANGED <<var_n, var_n1, request, n, sample, prev, grown, presses, est, mc, globals>>

\* line 127
ResetVarN ==
    /\ pc = "reset_var_n" /\ request = "none"
    /\ var_n' = <<>>
    /\ pc' = "reset_var_n1"
    /\ UNCHANGED <<running, var_n1, clicked, request, n, sample, prev, grown, presses, est, mc, globals, iters>>

\* the handler gone wrong: line 128 left out
ResetVarN1_Keeps ==
    /\ pc = "reset_var_n1" /\ request = "none"
    /\ pc' = "reset_done"
    /\ iters' = NoIters
    /\ UNCHANGED <<running, var_n, var_n1, clicked, request, n, sample, prev, grown, presses, est, mc, globals>>

\* line 128
ResetVarN1 ==
    /\ pc = "reset_var_n1" /\ request = "none"
    /\ var_n1' = <<>>
    /\ pc' = "reset_done"
    /\ iters' = NoIters
    /\ UNCHANGED <<running, var_n, clicked, request, n, sample, prev, grown, presses, est, mc, globals>>

\* line 129
ResetDone ==
    /\ pc = "reset_done" /\ request = "none"
    /\ pc' = "loop"
    /\ prev' = NoPrev
    /\ UNCHANGED <<running, var_n, var_n1, clicked, request, n, sample, grown, presses, est, mc, globals, iters>>

\* the loop gone wrong: its condition does not read the flag
LoopCheck_IgnoresFlag ==
    /\ pc = "loop" /\ request = "none"
    /\ Len(var_n) < MaxHist /\ Len(var_n1) < MaxHist
    /\ pc' = "draw"
    /\ UNCHANGED <<running, var_n, var_n1, clicked, request, n, sample, prev, grown, presses, est, mc, globals, iters>>

\* line 177: the while condition
LoopCheck ==
    /\ pc = "loop" /\ request = "none"
    /\ running => Len(var_n) < MaxHist /\ Len(var_n1) < MaxHist
    /\ pc' = IF running THEN "draw" ELSE "final_plot"
    /\ UNCHANGED <<running, var_n, var_n1, clicked, request, n, sample, prev, grown, presses, est, mc, globals, iters>>

\* lines 178-179; random.sample raises ValueError for a size above the
\* population's
DrawWith(streams) ==
    /\ pc = "draw"
    /\ \E k \in randint_2_10, seed \in 0..streams :
          /\ n' = k
          /\ IF k <= Len(globals.population)
             THEN /\ sample' = random_sample(globals.population, k, seed)
                  /\ pc' = "get_var_n"
             ELSE sample' = <<>> /\ pc' = "error"
    /\ UNCHANGED <<running, var_n, var_n1, clicked, request, prev, grown, presses, est, mc, globals, iters>>

Draw == DrawWith(MaxSeed)

\* line 180: st.session_state.var_n is fetched ...
GetVarN ==
    /\ pc = "get_var_n" /\ request = "none"
    /\ pc' = "append_n"
    /\ UNCHANGED <<running, var_n, var_n1, clicked, request, n, sample, prev, grown, presses, est, mc, globals, iters>>

\* ... then variance_n(sample) is computed and appended to the list
AppendN ==
    /\ pc = "append_n"
    /\ var_n' = Append(var_n, variance_n(sample))
    /\ grown' = IF grown.on THEN [grown EXCEPT !.n = @ + 1] ELSE grown
    /\ pc' = "get_var_n1"
    /\ UNCHANGED <<running, var_n1, clicked, request, n, sample, prev, presses, est, mc, globals, iters>>

\* line 181: st.session_state.var_n1 is fetched ...
GetVarN1 ==
    /\ pc = "get_var_n1" /\ request = "none"
    /\ pc' = "append_n1"
    /\ UNCHANGED <<running, var_n, var_n1, clicked, request, n, sample, prev, grown, presses, est, mc, globals, iters>>

\* ... then variance_n1(sample) is computed and appended to the list
AppendN1 ==
    /\ pc = "append_n1"
    /\ var_n1' = Append(var_n1, variance_n1(sample))
    /\ grown' = IF grown.on THEN [grown EXCEPT !.n1 = @ + 1] ELSE grown
    /\ pc' = "plot"
    /\ iters' = [iters EXCEPT !.count = @ + 1]
    /\ UNCHANGED <<running, var_n, clicked, request, n, sample, prev, presses, est, mc, globals>>

\* plot_simulation, lines 139-172.  Line 4 binds plt to the matplotlib package,
\* not to matplotlib.pyplot, and the package has no attribute subplots: with a
\* history to draw, line 143 raises AttributeError.  With none, line 141
\* returns.
plot_simulation == IF Len(var_n) = 0 THEN "return" ELSE "AttributeError"

\* lines 182-183: nothing catches the exception, so it ends the loop and the
\* run
PlotInLoop ==
    /\ pc = "plot" /\ request = "none"
    /\ pc' = IF plot_simulation = "return" THEN "loop" ELSE "error"
    /\ UNCHANGED <<running, var_n, var_n1, clicked, request, n, sample, prev, grown, presses, est, mc, globals, iters>>

\* line 188, and the rest of the script
FinalPlot ==
    /\ pc = "final_plot" /\ request = "none"
    /\ pc' = IF plot_simulation = "return" THEN "done" ELSE "error"
    /\ UNCHANGED <<running, var_n, var_n1, clicked, request, n, sample, prev, grown, presses, est, mc, globals, iters>>

\* the shape of the session state and of the script run's position
TypeOK ==
    /\ running \in BOOLEAN
    /\ \A i \in DOMAIN var_n : var_n[i] \in Int \X Int
    /\ \A i \in DOMAIN var_n1 : var_n1[i] \in Int \X Int
    /\ pc \in YieldPoints \cup Stopped \cup {"draw", "append_n", "append_n1"}
    /\ clicked \in {"none", "toggle", "reset"}
    /\ request \in {"none", "toggle", "reset"}
    /\ n = Len(sample)

Next ==
    \/ Click("toggle")
    \/ Click("reset")
    \/ Rerun
    \/ Toggle
    \/ ResetRunning
    \/ ResetVarN
    \/ ResetVarN1
    \/ ResetDone
    \/ LoopCheck
    \/ Draw
    \/ GetVarN
    \/ AppendN
    \/ GetVarN1
    \/ AppendN1
    \/ PlotInLoop
    \/ FinalPlot

Spec == Init /\ [][Next]_vars

-----------------------------------------------------------------------------
(* The estimators on their own: one sample in, the two functions applied.   *)

sessionVars ==
    <<running, var_n, var_n1, pc, clicked, request, n, sample, prev, grown, presses,
      globals, iters>>

EstInputs == UNION {[1..len -> 1..MaxVal] : len \in 1..MaxLen}

\* a Python call that returned v (exc names the exception of one that raised)
Returned(v) == [exc |-> "none", value |-> v]

EstInit ==
    /\ SessionInit
    /\ mc = NoMc
    /\ \E x \in EstInputs : est = [x |-> x, biased |-> <<>>, unbiased |-> <<>>]

CallVarianceN ==
    /\ est.x # <<>> /\ est.biased = <<>>
    /\ est' = [est EXCEPT !.biased = <<Returned(variance_n(est.x))>>]
    /\ UNCHANGED <<sessionVars, mc>>

CallVarianceN1 ==
    /\ est.x # <<>> /\ est.unbiased = <<>>
    /\ est' = [est EXCEPT !.unbiased = <<Returned(variance_n1(est.x))>>]
    /\ UNCHANGED <<sessionVars, mc>>

EstNext ==
    \/ CallVarianceN
    \/ CallVarianceN1

EstSpec == EstInit /\ [][EstNext]_vars

-----------------------------------------------------------------------------
(* Every sample of one size, each once: the loop body's two estimates are   *)
(* tallied over all k-subsets of the population, which random.sample draws  *)
(* with equal probability.                                                   *)

\* the combination after c in lexicographic order, among the k-subsets of
\* 1..N; <<>> after the last
RECURSIVE NextComb(_, _, _)
NextComb(c, i, N) ==
    IF i = 0 THEN <<>>
    ELSE IF c[i] < N - (Len(c) - i)
         THEN [j \in DOMAIN c |-> IF j < i THEN c[j] ELSE c[i] + 1 + (j - i)]
         ELSE NextComb(c, i - 1, N)

McInit ==
    /\ SessionInit
    /\ est = NoEst
    /\ \E k \in 2..MaxK :
          mc = [k |-> k, comb |-> [i \in 1..k |-> i], count |-> 0,
                sum_n |-> <<0, 1>>, sum_n1 |-> <<0, 1>>, phase |-> "tally"]

\* lines 179-181 on the sample at mc.comb
Tally ==
    /\ mc.phase = "tally"
    /\ LET s == [i \in 1..mc.k |-> population[mc.comb[i]]]
           next == NextComb(mc.comb, mc.k, Len(population))
       IN  mc' = [mc EXCEPT !.sum_n = FAdd(@, variance_n(s)),
                            !.sum_n1 = FAdd(@, variance_n1(s)),
                            !.count = @ + 1,
                            !.comb = next,
                            !.phase = IF next = <<>> THEN "done" ELSE "tally"]
    /\ UNCHANGED <<sessionVars, est>>

McNext == Tally

McSpec == McInit /\ [][McNext]_vars

-----------------------------------------------------------------------------
(* Claims *)

LoopBody == {"draw", "get_var_n", "append_n", "get_var_n1", "append_n1", "plot"}

\* C1: wherever the renderer is called or the run has ended, the two
\* histories have the same length.
C1_EqualLengthWhenObserved ==
    pc \in {"plot", "final_plot"} \cup Stopped => Len(var_n) = Len(var_n1)

\* C2: when the Clear / Reset handler has run (line 129 reached), running is
\* false and both histories are empty, whatever the state was before; a second
\* reset therefore ends in the same state as the first.
C2_ResetClears ==
    pc = "reset_done" => (running = FALSE /\ var_n = <<>> /\ var_n1 = <<>>)

\* a reset that has run to line 129 from a running session with entries in
\* both histories
C2_Witness ==
    /\ pc = "reset_done"
    /\ prev.running /\ prev.len_n > 0 /\ prev.len_n1 > 0
    /\ ~running /\ var_n = <<>> /\ var_n1 = <<>>

\* C3: the Start / Pause handler flips running, IDLE to RUNNING and RUNNING to
\* IDLE, and leaves both histories as they were.
C3_ToggleOnlyFlips ==
    [][(pc = "controls" /\ clicked = "toggle" /\ pc' = "loop")
        => (running' = ~running /\ var_n' = var_n /\ var_n1' = var_n1)]_vars

\* the second of two presses on Start / Pause has been handled: the session
\* is IDLE again and keeps the entries of the iteration in between
C3_Witness ==
    /\ presses = 2 /\ pc = "loop" /\ clicked = "none"
    /\ ~running /\ Len(var_n) = 1 /\ Len(var_n1) = 1

\* C4: the size chosen in a loop iteration is at least 2 and at most
\* min(10, population size); the sample has that size, and no draw asks for
\* more values than the population holds.
C4_SampleSizeInRange ==
    /\ pc \in LoopBody \ {"draw"} =>
          /\ 2 <= n
          /\ n <= (IF Len(population) < 10 THEN Len(population) ELSE 10)
          /\ Len(sample) = n
    /\ n <= Len(population)

\* an iteration that drew the largest size
C4_Witness == pc = "append_n1" /\ n = 10 /\ Len(sample) = 10

\* C5: variance_unbiased on a sample of size 1 raises (DivisionUndefined) and
\* returns no value.
C5_UnbiasedRaisesOnSizeOne ==
    (Len(est.x) = 1 /\ est.unbiased # <<>>) => est.unbiased[1].exc # "none"

AllIdentical(x) == \A i \in DOMAIN x : x[i] = x[1]

BothCalled == est.biased # <<>> /\ est.unbiased # <<>>

\* C6: for a sample of size at least 2 the divide-by-n estimate is at most the
\* divide-by-(n-1) estimate, with equality exactly when all values of the
\* sample are the same.
C6_BiasedAtMostUnbiased ==
    (Len(est.x) >= 2 /\ BothCalled) =>
        /\ IsFinite(est.biased[1].value) /\ IsFinite(est.unbiased[1].value)
        /\ FLe(est.biased[1].value, est.unbiased[1].value)
        /\ (est.biased[1].value = est.unbiased[1].value <=> AllIdentical(est.x))

\* both estimates of a sample of equal values, and they are equal
C6_Witness ==
    /\ Len(est.x) >= 2 /\ BothCalled /\ AllIdentical(est.x)
    /\ est.biased[1].value = est.unbiased[1].value

RECURSIVE SumInts(_)
SumInts(x) == IF x = <<>> THEN 0 ELSE x[1] + SumInts(Tail(x))

\* n * n * (sum of squared deviations from the sample mean), in integers:
\* the sum over i of (n * x[i] - sum(x)) ^ 2
ScaledSquares(x) ==
    SumInts([i \in DOMAIN x |->
                (Len(x) * x[i] - SumInts(x)) * (Len(x) * x[i] - SumInts(x))])

\* C7: for a sample of size n >= 2, variance_biased is the sum of squared
\* deviations from the sample mean over n and variance_unbiased is that sum
\* over n - 1; the sample [1, 2, 3] gives 2/3 and 1.
C7_EstimatorFormulas ==
    (Len(est.x) >= 2 /\ BothCalled) =>
        LET len == Len(est.x) IN
        /\ est.biased[1].value = Norm(ScaledSquares(est.x), len * len * len)
        /\ est.unbiased[1].value = Norm(ScaledSquares(est.x), len * len * (len - 1))
        /\ est.x = <<1, 2, 3>> =>
              est.biased[1].value = <<2, 3>> /\ est.unbiased[1].value = <<1, 1>>

\* both estimates of the sample [1, 2, 3]
C7_Witness ==
    /\ est.x = <<1, 2, 3>> /\ BothCalled
    /\ est.biased[1].value = <<2, 3>> /\ est.unbiased[1].value = <<1, 1>>

\* C8: over all equally likely samples of one size, the mean of
\* variance_unbiased is true_variance and the mean of variance_biased is
\* below true_variance.
C8_ExpectationAsClaimed ==
    mc.phase = "done" =>
        /\ np_true_divide(mc.sum_n1, FromInt(mc.count)) = true_variance
        /\ FLt(np_true_divide(mc.sum_n, FromInt(mc.count)), true_variance)

\* C9: while running is false the script is not inside the loop body, and
\* after a pause or reset request each history grows by at most one entry
\* before the loop has stopped.
C9_AtMostOneMoreIteration ==
    /\ ~running => pc \notin LoopBody
    /\ grown.on => (grown.n <= 1 /\ grown.n1 <= 1)

\* a request that arrived inside an iteration, which then appended an entry
C9_Witness == grown.on /\ grown.n = 1 /\ request # "none"

\* C10: a call of the renderer leaves running and both histories unchanged,
\* and inside the loop, with running true, it hands control back to the loop
\* whether or not the rendering failed.
C10_RenderIsolated ==
    [][(pc \in {"plot", "final_plot"} /\ pc' # "controls" /\ pc' # pc)
        => /\ running' = running /\ var_n' = var_n /\ var_n1' = var_n1
           /\ (pc = "plot" /\ running) => pc' = "loop"]_vars

-----------------------------------------------------------------------------
(* random.sample on its own: the draw of line 179 from the state in which    *)
(* the loop has just been entered, over more streams of the generator.       *)

\* Start / Pause pressed once and handled, line 177 passed
SampleInit ==
    /\ running = TRUE
    /\ var_n = <<>>
    /\ var_n1 = <<>>
    /\ pc = "draw"
    /\ clicked = "none"
    /\ request = "none"
    /\ n = 0
    /\ sample = <<>>
    /\ prev = NoPrev
    /\ grown = NotTracking
    /\ presses = 1
    /\ globals = [population |-> population, true_variance |-> true_variance]
    /\ iters = NoIters
    /\ est = NoEst
    /\ mc = NoMc

SampleNext == DrawWith(MaxStream)

SampleSpec == SampleInit /\ [][SampleNext]_vars

-----------------------------------------------------------------------------
(* Claims, continued *)

\* C11: the sample drawn in a loop iteration has exactly n values, no two of
\* them equal, each a member of the population.
C11_SampleDistinctMembers ==
    pc \in LoopBody \ {"draw"} =>
        /\ Len(sample) = n
        /\ \A i, j \in DOMAIN sample : i # j => sample[i] # sample[j]
        /\ \A i \in DOMAIN sample :
              \E q \in DOMAIN population : sample[i] = population[q]

\* a draw of the largest size that took a value moved into a vacancy (the
\* population's last value, drawn after the first)
C11_Witness ==
    /\ pc = "get_var_n" /\ n = 10 /\ Len(sample) = 10
    /\ \E i \in 2..10 : sample[i] = 20

\* C12: population is the integers 1..20 and true_variance is its variance
\* with divisor N, 33.25, in every state: no press, handler, iteration or
\* render changes either.
C12_GlobalsConstant ==
    /\ globals.population = [i \in 1..20 |-> i]
    /\ globals.true_variance = <<133, 4>>

\* after a start, an iteration, a failed render and a reset, handled in turn
C12_Witness ==
    /\ presses >= 2 /\ pc = "reset_done" /\ prev.len_n > 0
    /\ globals.true_variance = <<133, 4>>

\* C13: with no reset since the histories were empty, both histories are as
\* long as the number of iterations that made their appends, whatever presses
\* on Start / Pause came in between.
C13_LengthIsIterationCount ==
    (~iters.dirty /\ pc \in {"plot", "final_plot"} \cup Stopped) =>
        (Len(var_n) = iters.count /\ Len(var_n1) = iters.count)

\* C14: the session starts IDLE with empty histories, and a history changes
\* only by an append of the loop body made while running is true, or by a
\* line of the Clear / Reset handler emptying it.
C14_NoActivityWhileIdle ==
    [][(var_n' # var_n \/ var_n1' # var_n1) =>
         \/ /\ running /\ pc = "append_n"
            /\ Len(var_n') = Len(var_n) + 1 /\ var_n1' = var_n1
         \/ /\ running /\ pc = "append_n1"
            /\ Len(var_n1') = Len(var_n1) + 1 /\ var_n' = var_n
         \/ /\ pc \in {"reset_var_n", "reset_var_n1"}
            /\ var_n' \in {var_n, <<>>} /\ var_n1' \in {var_n1, <<>>}]_vars

\* IDLE after a pause, the run ended, entries kept and no press in flight
C14_Witness ==
    /\ ~running /\ pc \in Stopped /\ request = "none"
    /\ Len(var_n) >= 1 /\ Len(var_n1) >= 1

\* C15: while running is true the loop does not stop by itself: the script
\* run has not ended.
C15_LoopNeverStopsByItself == running => pc \notin Stopped

\* C16: wherever the renderer is called or the run has ended, the histories
\* are aligned: equally long, and at each index the two entries are the
\* estimates of one sample (of some size k in 2..10, so unbiased = biased *
\* k / (k - 1)) with 0 < biased < unbiased.
C16_EntriesAligned ==
    pc \in {"plot", "final_plot"} \cup Stopped =>
        /\ Len(var_n) = Len(var_n1)
        /\ \A i \in DOMAIN var_n :
              /\ FLt(<<0, 1>>, var_n[i])
              /\ FLt(var_n[i], var_n1[i])
              /\ \E k \in 2..10 :
                    FMul(var_n[i], <<k, 1>>) = FMul(var_n1[i], <<k - 1, 1>>)

=============================================================================
